---- MODULE Spec2Model ----
(***************************************************************************)
(* Portfolio backend: the authorization gate, the project, blog and        *)
(* contact handlers and the document store they act on.                    *)
(*                                                                         *)
(* Conventions.  An optional value is a sequence of length at most one:    *)
(* None is "absent" (undefined / null), Some(v) is "present with value v". *)
(* A request-body key that may carry null is an optional of an optional.   *)
(* Every handler is an operator from the request (and the store) to an     *)
(* outcome [coll, code, ...]; the action of the handler passes the request *)
(* through the route's middleware chain and installs the outcome.          *)
(***************************************************************************)
EXTENDS Integers, Sequences, FiniteSets, TLC

VARIABLES projects, blogs, contacts, users, nextId, now, last, failing, inflight

vars == <<projects, blogs, contacts, users, nextId, now, last, failing, inflight>>

(* ------------------------------ bounds --------------------------------- *)

\* identifiers the store hands out per collection (ObjectIds are never reused)
MaxProjects == 2
MaxBlogs == 1
MaxContacts == 1
MaxUsers == 2
\* clock readings new Date() can return: 0..MaxClock
MaxClock == 1
\* largest view counter explored
MaxViews == 1
\* store calls of one request that can be made to fail: the 1st..MaxFailing-th
MaxFailing == 2

(* ------------------------------ options -------------------------------- *)

None == <<>>
Some(v) == <<v>>
IsSome(o) == Len(o) = 1
Get(o) == o[1]
\* JavaScript `a || b` on an optional string
OrElse(o, d) == IF IsSome(o) /\ Get(o) # "" THEN Get(o) ELSE d
\* JavaScript truthiness of an optional string: undefined and "" are falsy
Truthy(o) == IsSome(o) /\ Get(o) # ""

Min(a, b) == IF a < b THEN a ELSE b
Max(a, b) == IF a > b THEN a ELSE b

(* ------------------------------ identifiers ---------------------------- *)

\* the ObjectIds a 24-hex id string of a request can denote: the ids the
\* store hands out and one it never does
Ids == 1..(Max(Max(MaxProjects, MaxBlogs), Max(MaxContacts, MaxUsers)) + 1)

\* An id string of a request, by what the handlers look at: its length,
\* whether all its characters are hexadecimal digits, and (when it is a
\* 24-hex string) the ObjectId it denotes.
IdStrings ==
    {[len |-> 24, hex |-> TRUE, key |-> k] : k \in Ids}
        \cup {[len |-> 24, hex |-> FALSE, key |-> 0],    \* "zzzzzzzzzzzzzzzzzzzzzzzz"
              [len |-> 12, hex |-> FALSE, key |-> 0]}    \* "hello-world!"

\* id.match(/^[0-9a-fA-F]{24}$/)
MatchObjectId(id) == id.len = 24 /\ id.hex

\* Mongoose's cast of a findById* argument to an ObjectId: a 24-hex string
\* casts; a 12-character string casts or not with the driver's version (it
\* then denotes an ObjectId no record of the store has); anything else is a
\* CastError.  The result is the set of possible outcomes.
CastObjectId(id) ==
    IF id.len = 24 /\ id.hex THEN {[ok |-> TRUE, key |-> id.key]}
    ELSE IF id.len = 12 THEN {[ok |-> TRUE, key |-> 0], [ok |-> FALSE, key |-> 0]}
    ELSE {[ok |-> FALSE, key |-> 0]}

(* ------------------------------ tokens --------------------------------- *)

\* the identity a request carries when no token was decoded
NoUser == [id |-> 0, username |-> None]

\* A word of an Authorization header, by what the gate and jwt.verify look
\* at: whether it is the word "Bearer", the empty string, or a token with a
\* payload, a signature made (or not) with JWT_SECRET, and an expiry.
Word(kind, payload, signed, expired) ==
    [kind |-> kind, payload |-> payload, signed |-> signed, expired |-> expired]

Bearer == Word("Bearer", NoUser, FALSE, FALSE)
Empty == Word("", NoUser, FALSE, FALSE)
TokAlice == Word("jwt", [id |-> 1, username |-> Some("alice")], TRUE, FALSE)
\* issued by the one-hour login variant: the payload holds the id only
TokLegacy == Word("jwt", [id |-> 1, username |-> None], TRUE, FALSE)
TokExpired == Word("jwt", [id |-> 1, username |-> Some("alice")], TRUE, TRUE)
TokForged == Word("jwt", [id |-> 1, username |-> Some("alice")], FALSE, FALSE)

\* the identities req.user can hold when a handler runs
Identities == {NoUser, TokAlice.payload, TokLegacy.payload}

\* An Authorization header is the list of its space-separated words; <<>> is
\* the absent header and <<Empty>> the empty string.
Headers ==
    {<<>>, <<Bearer, TokAlice>>, <<TokLegacy>>, <<Bearer, TokExpired>>, <<TokForged>>}

\* the headers explored on the project and blog routes: the token is sent
\* behind "Bearer " or is not a valid one
BearerHeaders == Headers \ {<<TokLegacy>>}

\* the header of a caller that has no token
AnonHeaders == {<<>>}

\* jwt.verify(token, process.env.JWT_SECRET): the payload, or a throw
JwtVerify(tok) ==
    IF tok.kind = "jwt" /\ tok.signed /\ ~tok.expired
    THEN [ok |-> TRUE, user |-> tok.payload]
    ELSE [ok |-> FALSE, user |-> NoUser]

Pass(user) == [next |-> TRUE, code |-> 0, message |-> "", user |-> user]
Deny(message) == [next |-> FALSE, code |-> 403, message |-> message, user |-> NoUser]

\* a header of several words that does not start with "Bearer ": a string
\* that holds spaces, which jwt.verify never accepts
Garbled == Word("garbled", NoUser, FALSE, FALSE)

\* token.startsWith("Bearer ") ? token.split(" ")[1] : token
SplitToken(hdr) ==
    IF Len(hdr) >= 2 /\ hdr[1] = Bearer THEN hdr[2]
    ELSE IF Len(hdr) = 1 THEN hdr[1]
    ELSE Garbled

\* a gate whose catch block is missing: next() is reached whatever verify did
authMiddlewareMut(hdr) ==
    IF hdr = <<>> \/ hdr = <<Empty>>
    THEN Deny("Access denied - No token provided")
    ELSE Pass(JwtVerify(SplitToken(hdr)).user)

\* a gate that takes the second word of every header: it reads a token only
\* behind "Bearer "
authMiddlewareBearerOnly(hdr) ==
    IF hdr = <<>> \/ hdr = <<Empty>>
    THEN Deny("Access denied - No token provided")
    ELSE LET verified == JwtVerify(IF Len(hdr) >= 2 THEN hdr[2] ELSE Garbled)
         IN IF verified.ok
            THEN Pass(verified.user)
            ELSE Deny("Invalid token - Authentication failed")

\* module.exports = (req, res, next) => ...: next tells whether next() is
\* called; when it is not, code and message are the response.
authMiddleware(hdr) ==
    IF hdr = <<>> \/ hdr = <<Empty>>
    THEN Deny("Access denied - No token provided")
    ELSE LET verified == JwtVerify(SplitToken(hdr))
         IN IF verified.ok
            THEN Pass(verified.user)
            ELSE Deny("Invalid token - Authentication failed")

(* ------------------------------ routes --------------------------------- *)

\* the routes registered with authMiddleware in front of the handler
ProtectedOps ==
    {"addProject", "updateProject", "deleteProject",
     "getBlogStats", "addBlog", "updateBlog", "deleteBlog",
     "getContacts", "getContactStats", "getContact", "updateContactStatus", "deleteContact",
     "verifyToken", "logout"}

\* the routes registered with the handler alone
PublicOps ==
    {"getProjects", "getProject", "getBlogs", "getBlog", "saveContact",
     "adminLogin", "registerAdmin"}

\* a chain whose gate also looks the account of the token up in the store
RouteMut(op, hdr) ==
    IF op \notin ProtectedOps THEN Pass(NoUser)
    ELSE IF authMiddleware(hdr).next /\ authMiddleware(hdr).user.id \notin DOMAIN users
    THEN Deny("Invalid token - Authentication failed")
    ELSE authMiddleware(hdr)

\* the middleware chain of a route, up to the handler
Route(op, hdr) == IF op \in ProtectedOps THEN authMiddleware(hdr) ELSE Pass(NoUser)

(* ------------------------------ strings -------------------------------- *)

\* A query-string value is the sequence of its characters.
DigitVal(c) == CASE c = "0" -> 0 [] c = "1" -> 1 [] c = "2" -> 2 [] c = "3" -> 3

IsDigit(c) == c \in {"0", "1", "2", "3"}

RECURSIVE ParseDigits(_, _)
\* the value of the longest prefix of digits of s, read after acc
ParseDigits(s, acc) ==
    IF s = <<>> \/ ~IsDigit(Head(s)) THEN acc
    ELSE ParseDigits(Tail(s), 10 * acc + DigitVal(Head(s)))

\* parseInt(s) of a string that starts with an optional "-" and a digit:
\* the digits are read up to the first character that is none
ParseInt(s) ==
    IF Head(s) = "-" THEN 0 - ParseDigits(Tail(s), 0) ELSE ParseDigits(s, 0)

\* the limit and page values a caller sends (absent: the handler's default)
QueryInts == {<<"0">>, <<"1">>, <<"2">>, <<"1", "0">>, <<"1", "x">>, <<"-", "1">>}

\* String.prototype.trim on the strings the requests carry
Trim(s) == CASE s = "  " -> "" [] s = " T " -> "T" [] OTHER -> s

\* the place of a string in the collation order, for the strings explored
Rank(s) == CASE s = "" -> 0 [] s = "John Doe" -> 1 [] s = "T" -> 2 [] OTHER -> 3

(* ------------------------------ lists ---------------------------------- *)

RECURSIVE SortIds(_, _, _)
\* the ids of S ordered by key (a function on S), ascending or descending;
\* records with equal keys come in id order
SortIds(S, key, asc) ==
    IF S = {} THEN <<>>
    ELSE LET first == CHOOSE i \in S : \A j \in S :
                          \/ (IF asc THEN key[i] < key[j] ELSE key[i] > key[j])
                          \/ (key[i] = key[j] /\ i <= j)
         IN <<first>> \o SortIds(S \ {first}, key, asc)

\* Math.ceil(total / limitNum) as the response carries it: JSON writes
\* Infinity (limit 0, total > 0) and NaN (limit 0, total 0) as null
CeilDiv(total, limitNum) ==
    IF limitNum = 0 THEN None
    ELSE IF limitNum > 0 THEN Some((total + limitNum - 1) \div limitNum)
    ELSE Some(0 - (total \div (0 - limitNum)))

\* pageNum < totalPages in JavaScript: totalPages is Infinity when limit is 0
\* and something matches, NaN when nothing does
LessThanPages(pageNum, total, limitNum) ==
    IF limitNum = 0 THEN total > 0
    ELSE pageNum < Get(CeilDiv(total, limitNum))

NoPg == [currentPage |-> 0, totalPages |-> None, total |-> 0,
         hasNextPage |-> FALSE, hasPrevPage |-> FALSE]

\* find(filter).sort(sortObj).limit(limitNum).skip(skip) followed by
\* countDocuments(filter) and the pagination object.  sorted: the matching
\* ids in sort order.  A negative skip is refused by the store (500); limit 0
\* is no limit; a negative limit returns at most -limit records.
PageOf(sorted, limitNum, pageNum) ==
    LET skip == (pageNum - 1) * limitNum
        total == Len(sorted)
        take == IF limitNum = 0 THEN total
                ELSE IF limitNum < 0 THEN 0 - limitNum ELSE limitNum
    IN  IF skip < 0 THEN [code |-> 500, shown |-> <<>>, pg |-> NoPg]
        ELSE [code |-> 200,
              shown |-> SubSeq(sorted, skip + 1, Min(skip + take, total)),
              pg |-> [currentPage |-> pageNum, totalPages |-> CeilDiv(total, limitNum),
                      total |-> total,
                      hasNextPage |-> LessThanPages(pageNum, total, limitNum),
                      hasPrevPage |-> pageNum > 1]]

\* const { limit = d, page = 1 } = req.query; parseInt(limit); parseInt(page)
LimitNum(q, d) == IF IsSome(q.limit) THEN ParseInt(Get(q.limit)) ELSE d
PageNum(q) == IF IsSome(q.page) THEN ParseInt(Get(q.page)) ELSE 1

\* the limit and page parts of the list queries explored
Paging ==
    {[limit |-> None, page |-> None]}
        \cup {[limit |-> Some(l), page |-> None] : l \in QueryInts}
        \cup {[limit |-> Some(<<"1">>), page |-> Some(p)] : p \in {<<"0">>, <<"2">>, <<"3">>}}
        \cup {[limit |-> Some(<<"-", "1">>), page |-> Some(<<"0">>)],
              [limit |-> Some(<<"0">>), page |-> Some(<<"2">>)]}

(* ------------------------------ requests and responses ---------------- *)

\* the id of a request that takes none
NoId == [len |-> 0, hex |-> FALSE, key |-> 0]

\* the body of a request that carries none
NoBody == [none |-> TRUE]

\* What a handler does: the collection it leaves, the status code and message
\* it sends, the ids of the records in the body, the pagination object and
\* the object sent under data (or token and user), if any.
Out(coll, code, msg) ==
    [coll |-> coll, code |-> code, msg |-> msg, shown |-> <<>>, pg |-> NoPg, data |-> None]
OutList(coll, page) ==
    [coll |-> coll, code |-> page.code,
     msg |-> IF page.code = 200 THEN "" ELSE "Error fetching",
     shown |-> page.shown, pg |-> page.pg, data |-> None]
OutDoc(coll, code, msg, id) ==
    [coll |-> coll, code |-> code, msg |-> msg, shown |-> <<id>>, pg |-> NoPg, data |-> None]
OutData(coll, code, msg, id, data) ==
    [coll |-> coll, code |-> code, msg |-> msg, shown |-> <<id>>, pg |-> NoPg,
     data |-> Some(data)]
\* res.json({success, data: doc}) for the record stored under id in coll
OutStored(coll, code, msg, id) == OutData(coll, code, msg, id, coll[id])

\* the request served last and its response: ran tells whether the handler
\* of the route was invoked, user is the identity the gate attached, body is
\* req.body (req.query for a list)
Served(op, hdr, id, body, g, out) ==
    [op |-> op, hdr |-> hdr, id |-> id, body |-> body, ran |-> TRUE, user |-> g.user,
     code |-> out.code, msg |-> out.msg, shown |-> out.shown, pg |-> out.pg,
     data |-> out.data]
Refused(op, hdr, id, g) ==
    [op |-> op, hdr |-> hdr, id |-> id, body |-> NoBody, ran |-> FALSE, user |-> g.user,
     code |-> g.code, msg |-> g.message, shown |-> <<>>, pg |-> NoPg, data |-> None]

Collections == {"projects", "blogs", "contacts", "users"}

Capacity(c) ==
    CASE c = "projects" -> MaxProjects
      [] c = "blogs" -> MaxBlogs
      [] c = "contacts" -> MaxContacts
      [] c = "users" -> MaxUsers

\* the bound on a save of a new record: the store has an id left for it
CanCreate(c) == nextId[c] <= Capacity(c)

\* the routers are mounted side by side and the handlers of one read and
\* write no collection but their own: the requests to the router of
\* collection c are followed while no other collection has stored a record
InFocus(c) == \A d \in Collections \ {c} : nextId[d] = 1

\* a collection with the record doc under a fresh id
Insert(coll, id, doc) == [i \in DOMAIN coll \cup {id} |-> IF i = id THEN doc ELSE coll[i]]
\* a collection without the record id
Remove(coll, id) == [i \in DOMAIN coll \ {id} |-> coll[i]]

(* ------------------------------ projects ------------------------------- *)

Categories == {"Web Development", "Mobile Development", "Desktop Application",
               "Data Analysis", "Machine Learning", "UI/UX Design", "Other"}

\* /^https?:\/\/.+\.(jpg|jpeg|png|gif|webp)$/i on the image strings explored
ImageUrlOk(v) == v \in {"https://x.io/a.png", "http://x.io/b.JPG"}

\* the validators of ProjectSchema on the paths present in doc (None: the
\* path is not part of the write); the result is the set of paths that fail
ProjectErrors(title, category, image) ==
    {p \in {"title", "category", "image"} :
        \/ p = "title" /\ IsSome(title) /\ Get(title) = ""
        \/ p = "category" /\ IsSome(category) /\ Get(category) \notin Categories
        \/ p = "image" /\ IsSome(image) /\ ~ImageUrlOk(Get(image))}

\* the bodies of POST /api/projects explored
NewProjectBodies ==
    {[title |-> t, category |-> c, image |-> i] :
        t \in {Some("T")}, c \in {Some("Web Development"), Some("Other")},
        i \in {Some("https://x.io/a.png")}}
    \cup {[title |-> None, category |-> Some("Other"), image |-> Some("https://x.io/a.png")],
          [title |-> Some("  "), category |-> Some("Other"), image |-> Some("https://x.io/a.png")],
          [title |-> Some(" T "), category |-> Some("Other"), image |-> Some("https://x.io/a.png")],
          [title |-> Some("T"), category |-> Some(""), image |-> Some("https://x.io/a.png")],
          [title |-> Some("T"), category |-> Some("Not A Real Category"), image |-> Some("https://x.io/a.png")],
          [title |-> Some("T"), category |-> Some("Other"), image |-> Some("ftp://x.io/a.txt")]}

\* exports.addProject
addProject(body) ==
    IF ~Truthy(body.title) \/ ~Truthy(body.category) \/ ~Truthy(body.image)
    THEN Out(projects, 400, "Title, category, and image are required fields")
    ELSE LET title == Trim(Get(body.title))
         IN IF ProjectErrors(Some(title), body.category, body.image) # {}
            THEN Out(projects, 400, "Validation error")
            ELSE OutStored(Insert(projects, nextId.projects,
                               [title |-> title, category |-> Get(body.category),
                                image |-> Get(body.image), createdAt |-> now,
                                updatedAt |-> now]),
                        201, "Project added successfully", nextId.projects)

\* the value read from a path a stored document does not hold
Missing == "<missing>"

\* A body of PUT /api/projects/:id: title, category, image, _id (id) and
\* createdAt are its top-level keys; rename is the path named by its $rename
\* operator, {"$rename": {<path>: "name"}}
ProjectUpdate(title, category, image, id, createdAt, rename) ==
    [title |-> title, category |-> category, image |-> image, id |-> id,
     createdAt |-> createdAt, rename |-> rename]

\* the bodies of PUT /api/projects/:id explored
ProjectUpdates ==
    {ProjectUpdate(None, None, None, None, None, None),
     ProjectUpdate(None, Some("Other"), None, None, None, None),
     ProjectUpdate(None, Some("Web Development"), None, Some(2), Some(0), None),
     ProjectUpdate(None, Some("Not A Real Category"), None, None, None, None),
     ProjectUpdate(Some(""), None, None, None, None, None),
     ProjectUpdate(None, None, Some("ftp://x.io/a.txt"), None, None, None),
     ProjectUpdate(None, None, None, None, None, Some("title"))}

\* the record after findByIdAndUpdate applied the update: its top-level keys
\* as a $set, and its $rename operator, which moves the value of the path to
\* a path outside the schema; timestamps: true makes every update stamp
\* updatedAt
ApplyProjectUpdate(doc, upd) ==
    [doc EXCEPT !.title = IF upd.rename = Some("title") THEN Missing
                          ELSE IF IsSome(upd.title) THEN Get(upd.title) ELSE @,
                !.category = IF IsSome(upd.category) THEN Get(upd.category) ELSE @,
                !.image = IF IsSome(upd.image) THEN Get(upd.image) ELSE @,
                !.createdAt = IF IsSome(upd.createdAt) THEN Get(upd.createdAt) ELSE @,
                !.updatedAt = now]

\* an updateProject that hands the body to the store as it came
StripProjectUpdateMut(body) == body

\* delete updateData._id; delete updateData.__v; delete updateData.createdAt
StripProjectUpdate(body) == [body EXCEPT !.id = None, !.createdAt = None]

\* exports.updateProject, for one outcome cast of the cast of the id; the
\* update validators (runValidators) look at the paths of $set and not at
\* those of $rename, and the store refuses a $set that would change _id
updateProject(id, body, cast) ==
    LET updateData == StripProjectUpdate(body)
    IN  IF ~cast.ok THEN Out(projects, 500, "Error updating project")
        ELSE IF IsSome(updateData.id) /\ Get(updateData.id) # cast.key
        THEN Out(projects, 500, "Error updating project")
        ELSE IF ProjectErrors(updateData.title, updateData.category, updateData.image) # {}
        THEN Out(projects, 400, "Validation error")
        ELSE IF cast.key \notin DOMAIN projects
        THEN Out(projects, 404, "Project not found")
        ELSE OutStored([projects EXCEPT ![cast.key] = ApplyProjectUpdate(@, updateData)],
                    200, "Project updated successfully", cast.key)

\* exports.deleteProject
deleteProject(id) ==
    IF ~MatchObjectId(id) THEN Out(projects, 400, "Invalid project ID format")
    ELSE IF id.key \notin DOMAIN projects THEN Out(projects, 404, "Project not found")
    ELSE OutDoc(Remove(projects, id.key), 200, "Project deleted successfully", id.key)

\* exports.getProject
getProject(id) ==
    IF ~MatchObjectId(id) THEN Out(projects, 400, "Invalid project ID format")
    ELSE IF id.key \notin DOMAIN projects THEN Out(projects, 404, "Project not found")
    ELSE OutStored(projects, 200, "", id.key)

\* the queries of GET /api/projects explored
ProjectQueries ==
    {[category |-> None, sort |-> "newest", limit |-> pp.limit, page |-> pp.page] :
        pp \in Paging}
    \cup {[category |-> Some("Other"), sort |-> "newest", limit |-> l, page |-> None] :
        l \in {None, Some(<<"1">>)}}
    \cup {[category |-> None, sort |-> s, limit |-> Some(<<"1">>), page |-> None] :
        s \in {"oldest", "title", "bogus"}}

\* the default limit of getProjects
ProjectLimit == 50

\* the ids matching the filter of getProjects, in its sort order
ProjectMatches(q) ==
    LET S == {i \in DOMAIN projects : Truthy(q.category) => projects[i].category = Get(q.category)}
    IN  CASE q.sort = "oldest" -> SortIds(S, [i \in S |-> projects[i].createdAt], TRUE)
          [] q.sort = "title" -> SortIds(S, [i \in S |-> Rank(projects[i].title)], TRUE)
          [] OTHER -> SortIds(S, [i \in S |-> projects[i].createdAt], FALSE)

\* exports.getProjects
getProjects(q) ==
    OutList(projects, PageOf(ProjectMatches(q), LimitNum(q, ProjectLimit), PageNum(q)))

(* ------------------------------ blogs ---------------------------------- *)

BlogStatuses == {"draft", "published", "archived"}

\* the content strings explored: minlength is 10
ContentOk(c) == c \in {"Node.js is a powerful runtime", "<an essay of 201 words>"}

\* content.split(' ').length of the content strings explored
WordCount(c) ==
    CASE c = "Node.js is a powerful runtime" -> 5
      [] c = "<an essay of 201 words>" -> 201
      [] OTHER -> 1

\* the words read per minute
WordsPerMinute == 200

\* the default of readTime: Math.ceil(wordCount / 200)
ReadTime(content) == (WordCount(content) + WordsPerMinute - 1) \div WordsPerMinute

\* the bodies of POST /api/blogs explored
NewBlogBodies ==
    {[title |-> Some("T"), content |-> Some("Node.js is a powerful runtime"), status |-> st] :
        st \in {None, Some("draft"), Some("published"), Some("archived"), Some("bogus")}}
    \cup {[title |-> None, content |-> Some("Node.js is a powerful runtime"), status |-> None],
          [title |-> Some("T"), content |-> Some("short"), status |-> None]}

\* BlogSchema.pre('save'): modifiedStatus is this.isModified('status')
BlogPreSave(doc, modifiedStatus) ==
    IF modifiedStatus /\ doc.status = "published" /\ ~IsSome(doc.publishedAt)
    THEN [doc EXCEPT !.publishedAt = Some(now)]
    ELSE doc

\* new Blog({...}) with the defaults of BlogSchema, then save()
NewBlog(title, content, status) ==
    BlogPreSave([title |-> title, content |-> content, status |-> status,
                 readTime |-> ReadTime(content), views |-> Some(0),
                 publishedAt |-> IF status = "published" THEN Some(now) ELSE None,
                 createdAt |-> now, updatedAt |-> now],
                TRUE)

\* exports.addBlog
addBlog(body) ==
    IF ~Truthy(body.title) \/ ~Truthy(body.content)
    THEN Out(blogs, 400, "Title and content are required")
    ELSE LET status == IF IsSome(body.status) THEN Get(body.status) ELSE "published"
             title == Trim(Get(body.title))
             content == Trim(Get(body.content))
         IN  IF title = "" \/ ~ContentOk(content) \/ status \notin BlogStatuses
             THEN Out(blogs, 400, "Validation error")
             ELSE OutStored(Insert(blogs, nextId.blogs, NewBlog(title, content, status)),
                         201, "Blog added successfully", nextId.blogs)

\* A body of PUT /api/blogs/:id: status, publishedAt, views, _id (id),
\* createdAt and content are its top-level keys, setViews is the views key of
\* its $set operator.  publishedAt, views and setViews may carry null
\* (Some(None)).
BlogUpdate(status, publishedAt, views, id, createdAt, setViews, content) ==
    [status |-> status, publishedAt |-> publishedAt, views |-> views, id |-> id,
     createdAt |-> createdAt, setViews |-> setViews, content |-> content]

\* the bodies of PUT /api/blogs/:id explored
BlogUpdates ==
    {BlogUpdate(st, None, None, None, None, None, None) :
        st \in {None, Some("draft"), Some("published"), Some("archived"), Some("bogus")}}
    \cup {BlogUpdate(Some("published"), None, Some(Some(1)), Some(2), Some(0), None, None),
          BlogUpdate(None, Some(Some(0)), None, None, None, None, None),
          BlogUpdate(None, Some(None), None, None, None, None, None),
          BlogUpdate(None, None, None, None, None, Some(Some(0)), None),
          BlogUpdate(None, None, None, None, None, Some(None), None),
          BlogUpdate(None, None, None, None, None, None, Some("<an essay of 201 words>")),
          BlogUpdate(None, None, None, None, None, None, Some("short"))}

\* delete updateData._id; delete updateData.__v; delete updateData.createdAt;
\* delete updateData.views
StripBlogUpdate(body) == [body EXCEPT !.id = None, !.createdAt = None, !.views = None]

\* the record after findByIdAndUpdate applied the update: its top-level keys
\* as a $set, and its $set operator
ApplyBlogUpdate(doc, upd) ==
    [doc EXCEPT !.status = IF IsSome(upd.status) THEN Get(upd.status) ELSE @,
                !.content = IF IsSome(upd.content) THEN Get(upd.content) ELSE @,
                !.publishedAt = IF IsSome(upd.publishedAt) THEN Get(upd.publishedAt) ELSE @,
                !.views = IF IsSome(upd.setViews) THEN Get(upd.setViews)
                          ELSE IF IsSome(upd.views) THEN Get(upd.views) ELSE @,
                !.updatedAt = now]

\* exports.updateBlog, for one outcome cast of the cast of the id
updateBlog(id, body, cast) ==
    LET updateData == StripBlogUpdate(body)
    IN  IF ~cast.ok THEN Out(blogs, 500, "Error updating blog")
        ELSE IF \/ IsSome(updateData.status) /\ Get(updateData.status) \notin BlogStatuses
                \/ IsSome(updateData.content) /\ ~ContentOk(Get(updateData.content))
        THEN Out(blogs, 400, "Validation error")
        ELSE IF cast.key \notin DOMAIN blogs
        THEN Out(blogs, 404, "Blog not found")
        ELSE OutStored([blogs EXCEPT ![cast.key] = ApplyBlogUpdate(@, updateData)],
                    200, "Blog updated successfully", cast.key)

\* a getBlog whose findByIdAndUpdate lacks {new: true}: it answers with the
\* record as it was before the increment
getBlogMut(id) ==
    IF ~MatchObjectId(id) THEN Out(blogs, 400, "Invalid blog ID format")
    ELSE IF id.key \notin DOMAIN blogs THEN Out(blogs, 404, "Blog not found")
    ELSE IF ~IsSome(blogs[id.key].views) THEN Out(blogs, 500, "Error fetching blog")
    ELSE LET after == [blogs EXCEPT ![id.key].views = Some(Get(@) + 1),
                                    ![id.key].updatedAt = now]
         IN  IF after[id.key].status # "published"
             THEN Out(after, 404, "Blog not found")
             ELSE OutData(after, 200, "", id.key, blogs[id.key])

\* exports.getBlog: findByIdAndUpdate(id, {$inc: {views: 1}}, {new: true});
\* the store refuses $inc on a field that holds null
getBlog(id) ==
    IF ~MatchObjectId(id) THEN Out(blogs, 400, "Invalid blog ID format")
    ELSE IF id.key \notin DOMAIN blogs THEN Out(blogs, 404, "Blog not found")
    ELSE IF ~IsSome(blogs[id.key].views) THEN Out(blogs, 500, "Error fetching blog")
    ELSE LET after == [blogs EXCEPT ![id.key].views = Some(Get(@) + 1),
                                    ![id.key].updatedAt = now]
         IN  IF after[id.key].status # "published"
             THEN Out(after, 404, "Blog not found")
             ELSE OutStored(after, 200, "", id.key)

\* exports.deleteBlog
deleteBlog(id) ==
    IF ~MatchObjectId(id) THEN Out(blogs, 400, "Invalid blog ID format")
    ELSE IF id.key \notin DOMAIN blogs THEN Out(blogs, 404, "Blog not found")
    ELSE OutDoc(Remove(blogs, id.key), 200, "Blog deleted successfully", id.key)

\* exports.getBlogStats
getBlogStats == Out(blogs, 200, "")

\* A query of GET /api/blogs.  No record explored carries tags, so a tag
\* filter matches nothing; search is matched against title and content.
BlogQuery(status, tag, search, sort, paging) ==
    [status |-> status, tag |-> tag, search |-> search, sort |-> sort,
     limit |-> paging.limit, page |-> paging.page]

\* the queries of GET /api/blogs explored
BlogQueries ==
    {BlogQuery(None, None, None, "newest", pp) : pp \in Paging}
    \cup {BlogQuery(Some(st), None, None, "newest", [limit |-> None, page |-> None]) :
            st \in {"published", "draft", "archived", "bogus"}}
    \cup {BlogQuery(None, None, None, so, [limit |-> None, page |-> None]) :
            so \in {"oldest", "title", "views"}}
    \cup {BlogQuery(None, Some("js"), None, "newest", [limit |-> None, page |-> None]),
          BlogQuery(None, None, Some("t"), "newest", [limit |-> None, page |-> None]),
          BlogQuery(Some("draft"), None, Some("zzz"), "newest", [limit |-> None, page |-> None])}

\* { $regex: search, $options: 'i' } on a string, for the strings explored
RegexFind(search, text) == search = "t" /\ text = "T"

\* the default limit of getBlogs
BlogLimit == 10

\* the sort key of a Date or Number that may be null: null sorts first
NullFirst(o) == IF IsSome(o) THEN Get(o) + 1 ELSE 0

\* the ids matching the filter of getBlogs, in its sort order
BlogMatches(q) ==
    LET status == IF IsSome(q.status) THEN Get(q.status) ELSE "published"
        S == {i \in DOMAIN blogs :
                /\ blogs[i].status = status
                /\ ~Truthy(q.tag)
                /\ Truthy(q.search) =>
                      \/ RegexFind(Get(q.search), blogs[i].title)
                      \/ RegexFind(Get(q.search), blogs[i].content)}
    IN  CASE q.sort = "oldest" -> SortIds(S, [i \in S |-> NullFirst(blogs[i].publishedAt)], TRUE)
          [] q.sort = "title" -> SortIds(S, [i \in S |-> Rank(blogs[i].title)], TRUE)
          [] q.sort = "views" -> SortIds(S, [i \in S |-> NullFirst(blogs[i].views)], FALSE)
          [] OTHER -> SortIds(S, [i \in S |-> NullFirst(blogs[i].publishedAt)], FALSE)

\* exports.getBlogs
getBlogs(q) == OutList(blogs, PageOf(BlogMatches(q), LimitNum(q, BlogLimit), PageNum(q)))

(* ------------------------------ contacts ------------------------------- *)

ContactStatuses == {"new", "read", "replied", "archived"}
Priorities == {"low", "normal", "high", "urgent"}

\* String.prototype.toLowerCase on the strings the requests carry
ToLower(s) == CASE s = "John@Example.com" -> "john@example.com" [] s = "Alice" -> "alice" [] OTHER -> s

\* /^[^\s@]+@[^\s@]+\.[^\s@]+$/ on the email strings explored
EmailOk(e) == e \in {"john@example.com", "John@Example.com"}

\* the bodies of POST /api/contact explored
NewContactBodies ==
    {[name |-> Some("John Doe"), email |-> Some(e),
      message |-> Some("I am interested in hiring you for a web project.")] :
        e \in {"john@example.com", "John@Example.com", "not-an-email"}}
    \cup {[name |-> None, email |-> Some("john@example.com"),
           message |-> Some("I am interested in hiring you for a web project.")],
          [name |-> Some("J"), email |-> Some("john@example.com"),
           message |-> Some("I am interested in hiring you for a web project.")],
          [name |-> Some("John Doe"), email |-> Some("john@example.com"), message |-> Some("hi")]}

\* the length of the strings a contact form carries
StrLen(s) == CASE s = "J" -> 1 [] s = "hi" -> 2 [] s = "John Doe" -> 8 [] OTHER -> 48

\* the paths of the ValidationError contact.save() raises for a name and a
\* message: name minlength 2 and maxlength 100, message minlength 10 and
\* maxlength 2000
ContactErrors(name, message) ==
    {path \in {"name", "message"} :
        \/ path = "name" /\ (StrLen(name) < 2 \/ StrLen(name) > 100)
        \/ path = "message" /\ (StrLen(message) < 10 \/ StrLen(message) > 2000)}

\* new Contact({...}) with the defaults of ContactSchema, as save() stores it
NewContact(name, email, message) ==
    [name |-> name, email |-> email,
     message |-> message, status |-> "new", priority |-> "normal",
     source |-> "website", ipAddress |-> "203.0.113.7",
     userAgent |-> "curl/8", notes |-> None,
     respondedAt |-> None, respondedBy |-> None,
     createdAt |-> now, updatedAt |-> now]

\* a saveContact that answers with the whole saved record
saveContactMut(body) ==
    IF ~Truthy(body.name) \/ ~Truthy(body.email) \/ ~Truthy(body.message)
    THEN Out(contacts, 400, "Name, email, and message are required fields")
    ELSE IF ~EmailOk(Get(body.email))
    THEN Out(contacts, 400, "Please provide a valid email address")
    ELSE LET name == Trim(Get(body.name))
             message == Trim(Get(body.message))
             email == Trim(ToLower(Get(body.email)))
         IN  IF ContactErrors(name, message) # {}
             THEN Out(contacts, 400, "Validation error")
             ELSE OutStored(Insert(contacts, nextId.contacts, NewContact(name, email, message)),
                            201, "Thank you for your message! We will get back to you soon.",
                            nextId.contacts)

\* exports.saveContact
saveContact(body) ==
    IF ~Truthy(body.name) \/ ~Truthy(body.email) \/ ~Truthy(body.message)
    THEN Out(contacts, 400, "Name, email, and message are required fields")
    ELSE IF ~EmailOk(Get(body.email))
    THEN Out(contacts, 400, "Please provide a valid email address")
    ELSE LET name == Trim(Get(body.name))
             message == Trim(Get(body.message))
             email == Trim(ToLower(Get(body.email)))
         IN  IF ContactErrors(name, message) # {}
             THEN Out(contacts, 400, "Validation error")
             ELSE OutData(Insert(contacts, nextId.contacts, NewContact(name, email, message)),
                          201, "Thank you for your message! We will get back to you soon.",
                          nextId.contacts,
                          [id |-> nextId.contacts, name |-> name, email |-> email,
                           submittedAt |-> now])

\* ContactSchema.pre('save'): modifiedStatus is this.isModified('status')
ContactPreSave(doc, modifiedStatus) ==
    IF modifiedStatus /\ doc.status = "replied" /\ ~IsSome(doc.respondedAt)
    THEN [doc EXCEPT !.respondedAt = Some(now)]
    ELSE doc

\* a markAsRead that sets nothing
markAsReadMut(doc) == doc

\* ContactSchema.methods.markAsRead; the save of the changed record stamps
\* updatedAt
markAsRead(doc) ==
    ContactPreSave([doc EXCEPT !.status = "read", !.updatedAt = now], TRUE)

\* exports.getContact
getContact(id) ==
    IF ~MatchObjectId(id) THEN Out(contacts, 400, "Invalid contact ID format")
    ELSE IF id.key \notin DOMAIN contacts THEN Out(contacts, 404, "Contact message not found")
    ELSE IF contacts[id.key].status = "new"
    THEN OutStored([contacts EXCEPT ![id.key] = markAsRead(@)], 200, "", id.key)
    ELSE OutStored(contacts, 200, "", id.key)

\* the bodies of PUT /api/contact/:id explored
ContactUpdates ==
    {[status |-> st, priority |-> None, notes |-> None] :
        st \in {None, Some("new"), Some("read"), Some("replied"), Some("archived"), Some("bogus")}}
    \cup {[status |-> Some(""), priority |-> Some("high"), notes |-> Some("called back")],
          [status |-> None, priority |-> Some("bogus"), notes |-> None]}

\* an updateData that stamps respondedAt and respondedBy whatever the status
ContactUpdateDataMut(doc, body, user) ==
    [status |-> IF Truthy(body.status) THEN body.status ELSE None,
     priority |-> IF Truthy(body.priority) THEN body.priority ELSE None,
     notes |-> body.notes,
     respondedAt |-> Some(now),
     respondedBy |-> Some(OrElse(user.username, "admin"))]

\* the updateData object of updateContactStatus (doc is the stored record,
\* which the handler does not read)
ContactUpdateData(doc, body, user) ==
    [status |-> IF Truthy(body.status) THEN body.status ELSE None,
     priority |-> IF Truthy(body.priority) THEN body.priority ELSE None,
     notes |-> body.notes,
     respondedAt |-> IF body.status = Some("replied") THEN Some(now) ELSE None,
     respondedBy |-> IF body.status = Some("replied")
                     THEN Some(OrElse(user.username, "admin")) ELSE None]

\* the record after findByIdAndUpdate applied updateData as a $set
ApplyContactUpdate(doc, upd) ==
    [doc EXCEPT !.status = IF IsSome(upd.status) THEN Get(upd.status) ELSE @,
                !.priority = IF IsSome(upd.priority) THEN Get(upd.priority) ELSE @,
                !.notes = IF IsSome(upd.notes) THEN upd.notes ELSE @,
                !.respondedAt = IF IsSome(upd.respondedAt) THEN upd.respondedAt ELSE @,
                !.respondedBy = IF IsSome(upd.respondedBy) THEN upd.respondedBy ELSE @,
                !.updatedAt = now]

\* exports.updateContactStatus
updateContactStatus(id, body, user) ==
    IF ~MatchObjectId(id) THEN Out(contacts, 400, "Invalid contact ID format")
    ELSE IF \/ Truthy(body.status) /\ Get(body.status) \notin ContactStatuses
            \/ Truthy(body.priority) /\ Get(body.priority) \notin Priorities
    THEN Out(contacts, 400, "Validation error")
    ELSE IF id.key \notin DOMAIN contacts THEN Out(contacts, 404, "Contact message not found")
    ELSE OutStored([contacts EXCEPT ![id.key] =
                    ApplyContactUpdate(@, ContactUpdateData(@, body, user))],
                200, "Contact status updated successfully", id.key)

\* deleteContact keeping the record (a soft delete answered as a delete)
deleteContactMut(id) ==
    IF ~MatchObjectId(id) THEN Out(contacts, 400, "Invalid contact ID format")
    ELSE IF id.key \notin DOMAIN contacts THEN Out(contacts, 404, "Contact message not found")
    ELSE OutDoc(contacts, 200, "Contact message deleted successfully", id.key)

\* exports.deleteContact
deleteContact(id) ==
    IF ~MatchObjectId(id) THEN Out(contacts, 400, "Invalid contact ID format")
    ELSE IF id.key \notin DOMAIN contacts THEN Out(contacts, 404, "Contact message not found")
    ELSE OutDoc(Remove(contacts, id.key), 200, "Contact message deleted successfully", id.key)

\* the trailing window of the recent count, in clock readings
SevenDays == 7

\* the $group stage of getContactStats over the stored records, or the
\* all-zero object when the collection is empty, with recentContacts the
\* count of the records created within the trailing seven days (the _id:
\* null of the group is left out)
ContactStats(coll) ==
    LET n(st) == Cardinality({i \in DOMAIN coll : coll[i].status = st})
    IN  [totalContacts |-> Cardinality(DOMAIN coll),
         newContacts |-> n("new"),
         readContacts |-> n("read"),
         repliedContacts |-> n("replied"),
         archivedContacts |-> n("archived"),
         recentContacts |-> Cardinality({i \in DOMAIN coll : coll[i].createdAt >= now - SevenDays})]

\* statistics that count the messages awaiting an answer only
getContactStatsMut ==
    [coll |-> contacts, code |-> 200, msg |-> "", shown |-> <<>>, pg |-> NoPg,
     data |-> Some(ContactStats([i \in {j \in DOMAIN contacts : contacts[j].status \in {"new", "read"}}
                                 |-> contacts[i]]))]

\* exports.getContactStats
getContactStats ==
    [coll |-> contacts, code |-> 200, msg |-> "", shown |-> <<>>, pg |-> NoPg,
     data |-> Some(ContactStats(contacts))]

\* the queries of GET /api/contact explored
ContactQueries ==
    {[status |-> None, priority |-> None, sort |-> "newest", limit |-> pp.limit, page |-> pp.page] :
        pp \in Paging}
    \cup {[status |-> Some(st), priority |-> None, sort |-> "newest", limit |-> None, page |-> None] :
            st \in {"new", "replied"}}
    \cup {[status |-> None, priority |-> pr, sort |-> so, limit |-> None, page |-> None] :
            pr \in {Some("high")}, so \in {"oldest", "name"}}

\* the default limit of getContacts
ContactLimit == 20

\* the ids matching the filter of getContacts, in its sort order
ContactMatches(q) ==
    LET S == {i \in DOMAIN contacts :
                /\ Truthy(q.status) => contacts[i].status = Get(q.status)
                /\ Truthy(q.priority) => contacts[i].priority = Get(q.priority)}
    IN  CASE q.sort = "oldest" -> SortIds(S, [i \in S |-> contacts[i].createdAt], TRUE)
          [] q.sort = "name" -> SortIds(S, [i \in S |-> Rank(contacts[i].name)], TRUE)
          [] q.sort = "email" -> SortIds(S, [i \in S |-> Rank(contacts[i].email)], TRUE)
          [] OTHER -> SortIds(S, [i \in S |-> contacts[i].createdAt], FALSE)

\* exports.getContacts
getContacts(q) ==
    OutList(contacts, PageOf(ContactMatches(q), LimitNum(q, ContactLimit), PageNum(q)))

(* ------------------------------ accounts ------------------------------- *)

\* the passwords the requests carry
Passwords == {"secret-1", "abc", "wrong-pw"}

\* bcrypt.hash(password, 10): a string that is not the password, that
\* bcrypt.compare tells from the hash of any other password, and that differs
\* from the hash of a hash
Hash(password) ==
    CASE password = "secret-1" -> "$2a$10$hash.of.secret-1"
      [] password = "abc" -> "$2a$10$hash.of.abc"
      [] password = "wrong-pw" -> "$2a$10$hash.of.wrong-pw"
      [] OTHER -> "$2a$10$hash.of.a.hash"

\* bcrypt.compare(password, hash)
Compare(password, hash) == hash = Hash(password)

\* a pre("save") hook without the hashing
UserPreSaveMut(doc, modifiedPassword) == doc

\* UserSchema.pre("save"): modifiedPassword is this.isModified("password")
UserPreSave(doc, modifiedPassword) ==
    IF modifiedPassword THEN [doc EXCEPT !.password = Hash(@)] ELSE doc

\* the bodies of POST /api/auth/register explored
RegisterBodies ==
    {[username |-> u, email |-> Some("alice@example.com"), password |-> pw] :
        u \in {Some("alice"), Some("Alice"), Some("bob"), None},
        pw \in {Some("secret-1"), Some("abc")}}

\* the length of the passwords explored
PasswordLength(pw) == IF pw = "abc" THEN 3 ELSE 8

\* User.findOne({$or: [{username: name}, {email: name}]}): UserSchema
\* declares no email path, so no record holds one and the username decides
FindUser(name) == {i \in DOMAIN users : users[i].username = name}

\* new User({username, email, password, role}): the paths UserSchema does not
\* declare (email, role) are dropped by the constructor
NewUser(username, password) == [username |-> username, password |-> password]

\* exports.registerAdmin: admin.email is read back from the document, which
\* holds no email
registerAdmin(body) ==
    IF ~Truthy(body.username) \/ ~Truthy(body.email) \/ ~Truthy(body.password)
    THEN Out(users, 400, "Username, email, and password are required")
    ELSE IF PasswordLength(Get(body.password)) < 6
    THEN Out(users, 400, "Password must be at least 6 characters long")
    ELSE IF FindUser(ToLower(Get(body.username))) # {}
    THEN Out(users, 409, "Admin with this username or email already exists")
    ELSE OutData(Insert(users, nextId.users,
                        UserPreSave(NewUser(ToLower(Get(body.username)), Get(body.password)),
                                    TRUE)),
                 201, "Admin account created successfully", nextId.users,
                 [id |-> nextId.users, username |-> ToLower(Get(body.username)),
                  email |-> None])

\* the bodies of POST /api/auth/login explored
LoginBodies ==
    {[email |-> e, password |-> pw] :
        e \in {Some("alice"), Some("Alice"), Some("alice@example.com"), Some("mallory"), None},
        pw \in {Some("secret-1"), Some("wrong-pw")}}

\* jwt.sign({id, username, role}, JWT_SECRET, {expiresIn: "24h"}); the role
\* is "admin" for every account and is left out of the identity
JwtSign(id, username) == Word("jwt", [id |-> id, username |-> Some(username)], TRUE, FALSE)

\* the body of a successful login: the token and the summary of the account
LoginData(id) ==
    [token |-> JwtSign(id, users[id].username),
     user |-> [id |-> id, username |-> users[id].username, role |-> "admin"]]

\* an adminLogin that skips bcrypt.compare
adminLoginMut(body) ==
    IF ~Truthy(body.email) \/ ~Truthy(body.password)
    THEN Out(users, 400, "Email and password are required")
    ELSE LET found == FindUser(ToLower(Get(body.email)))
         IN  IF found = {} THEN Out(users, 401, "Invalid credentials - User not found")
             ELSE LET admin == CHOOSE i \in found : TRUE
                  IN  OutData(users, 200, "Login successful", admin, LoginData(admin))

\* exports.adminLogin
adminLogin(body) ==
    IF ~Truthy(body.email) \/ ~Truthy(body.password)
    THEN Out(users, 400, "Email and password are required")
    ELSE LET found == FindUser(ToLower(Get(body.email)))
         IN  IF found = {} THEN Out(users, 401, "Invalid credentials - User not found")
             ELSE LET admin == CHOOSE i \in found : TRUE
                  IN  IF ~Compare(Get(body.password), users[admin].password)
                      THEN Out(users, 401, "Invalid credentials - Incorrect password")
                      ELSE OutData(users, 200, "Login successful", admin, LoginData(admin))

\* exports.verifyToken: user is req.user, the identity the gate attached
verifyToken(user) ==
    IF user.id \notin DOMAIN users THEN Out(users, 404, "User not found")
    ELSE OutData(users, 200, "Token is valid", user.id,
                 [id |-> user.id, username |-> users[user.id].username,
                  email |-> None, role |-> "admin"])

\* router.post("/logout", authMiddleware, (req, res) => ...)
logout == Out(users, 200, "Logged out successfully")

(* ------------------------------ the system ----------------------------- *)

NoLast ==
    [op |-> "none", hdr |-> <<>>, id |-> NoId, body |-> NoBody, ran |-> FALSE, user |-> NoUser,
     code |-> 0, msg |-> "", shown |-> <<>>, pg |-> NoPg, data |-> None]

\* the collections are empty and nothing was served
InitStore ==
    /\ projects = <<>>
    /\ blogs = <<>>
    /\ contacts = <<>>
    /\ users = <<>>
    /\ nextId = [c \in Collections |-> 1]
    /\ now = 0
    /\ last = NoLast

\* failing = 0: every store call answers; no request is in flight: each
\* request is handled to its response before the next arrives
Init == InitStore /\ failing = 0 /\ inflight = <<>>

\* failing = k > 0: the k-th store call of every request throws (the
\* connection drops, the server times out the operation)
InitOutage == InitStore /\ failing \in 1..MaxFailing /\ inflight = <<>>

\* time passes
Tick ==
    /\ now < MaxClock
    /\ now' = now + 1
    /\ UNCHANGED <<projects, blogs, contacts, users, nextId, last, failing, inflight>>

\* the store hands out the next id of collection c when the collection grew
Allocate(c, before, after) ==
    nextId' = IF DOMAIN after \subseteq DOMAIN before THEN nextId
              ELSE [nextId EXCEPT ![c] = @ + 1]

Coll(c) ==
    CASE c = "projects" -> projects
      [] c = "blogs" -> blogs
      [] c = "contacts" -> contacts
      [] c = "users" -> users

\* the message of the catch block of handler op
ErrorMessage(op) ==
    CASE op = "getProjects" -> "Error fetching projects"
      [] op = "getProject" -> "Error fetching project"
      [] op = "addProject" -> "Error adding project"
      [] op = "updateProject" -> "Error updating project"
      [] op = "deleteProject" -> "Error deleting project"
      [] op = "getBlogs" -> "Error fetching blogs"
      [] op = "getBlog" -> "Error fetching blog"
      [] op = "addBlog" -> "Error adding blog"
      [] op = "updateBlog" -> "Error updating blog"
      [] op = "deleteBlog" -> "Error deleting blog"
      [] op = "getBlogStats" -> "Error fetching blog statistics"
      [] op = "saveContact" -> "Sorry, there was an error submitting your message. Please try again later."
      [] op = "getContacts" -> "Error fetching contact messages"
      [] op = "getContact" -> "Error fetching contact message"
      [] op = "updateContactStatus" -> "Error updating contact status"
      [] op = "deleteContact" -> "Error deleting contact message"
      [] op = "getContactStats" -> "Error fetching contact statistics"
      [] op = "adminLogin" -> "Internal server error during authentication"
      [] op = "registerAdmin" -> "Error creating admin account"
      [] op = "verifyToken" -> "Error verifying token"
      [] OTHER -> ""

\* The store calls handler op awaits on the way to the answer o it gives
\* when every call answers.  The checks answered 400 come before the first
\* call (a validation error is raised by save() and by the update validators
\* before anything is sent to the server); logout makes no call; a list
\* awaits find and countDocuments, the contact statistics aggregate and
\* countDocuments, registerAdmin findOne and then save, getContact findById
\* and then the save of markAsRead.
StoreCalls(c, op, o) ==
    CASE o.code = 400 \/ op = "logout" -> 0
      [] op \in {"getProjects", "getBlogs", "getContacts", "getContactStats"} -> 2
      [] op = "registerAdmin" -> IF o.code = 201 THEN 2 ELSE 1
      [] op = "getContact" -> IF o.coll # Coll(c) THEN 2 ELSE 1
      [] OTHER -> 1

\* a handler without its try/catch: the exception of the failing call leaves
\* the handler and no response is sent (code 0)
CaughtMut(c, op, o) ==
    IF failing \in 1..StoreCalls(c, op, o) THEN Out(Coll(c), 0, "") ELSE o

\* try { ... } catch (error) { res.status(500).json(...) }: the call that
\* throws is the handler's last, nothing it would have written is written
Caught(c, op, o) ==
    IF failing \in 1..StoreCalls(c, op, o) THEN Out(Coll(c), 500, ErrorMessage(op)) ELSE o

\* a request on collection c: the route's chain, then the handler, whose
\* outcome out[user] for the identity attached is installed
Serve(c, op, hdr, id, body, out) ==
    /\ InFocus(c)
    /\ \E g \in {Route(op, hdr)} :
        /\ g.next
        /\ \E o \in {Caught(c, op, out[g.user])} :
            /\ DOMAIN o.coll \subseteq DOMAIN Coll(c) \/ CanCreate(c)
            /\ projects' = IF c = "projects" THEN o.coll ELSE projects
            /\ blogs' = IF c = "blogs" THEN o.coll ELSE blogs
            /\ contacts' = IF c = "contacts" THEN o.coll ELSE contacts
            /\ users' = IF c = "users" THEN o.coll ELSE users
            /\ Allocate(c, Coll(c), o.coll)
            /\ last' = Served(op, hdr, id, body, g, o)
            /\ UNCHANGED <<now, failing, inflight>>

\* a request to a protected route that the gate answers itself
Turned(c, op) ==
    \E hdr \in Headers :
        /\ InFocus(c)
        /\ ~Route(op, hdr).next
        /\ last' = Refused(op, hdr, NoId, Route(op, hdr))
        /\ UNCHANGED <<projects, blogs, contacts, users, nextId, now, failing, inflight>>

GetProjects ==
    \E hdr \in AnonHeaders, q \in ProjectQueries :
        LET out == [user \in Identities |-> getProjects(q)] IN Serve("projects", "getProjects", hdr, NoId, q, out)

GetProject ==
    \E hdr \in AnonHeaders, id \in IdStrings :
        LET out == [user \in Identities |-> getProject(id)] IN Serve("projects", "getProject", hdr, id, NoBody, out)

AddProject ==
    \/ Turned("projects", "addProject")
    \/ \E hdr \in BearerHeaders, body \in NewProjectBodies :
        LET out == [user \in Identities |-> addProject(body)] IN Serve("projects", "addProject", hdr, NoId, body, out)

UpdateProject ==
    \/ Turned("projects", "updateProject")
    \/ \E hdr \in BearerHeaders, id \in IdStrings, body \in ProjectUpdates : \E cast \in CastObjectId(id) :
        LET out == [user \in Identities |-> updateProject(id, body, cast)] IN Serve("projects", "updateProject", hdr, id, body, out)

DeleteProject ==
    \/ Turned("projects", "deleteProject")
    \/ \E hdr \in BearerHeaders, id \in IdStrings :
        LET out == [user \in Identities |-> deleteProject(id)] IN Serve("projects", "deleteProject", hdr, id, NoBody, out)

\* the view counters stay within the counters explored
ViewsBound(coll) == \A i \in DOMAIN coll : IsSome(coll[i].views) => Get(coll[i].views) <= MaxViews

GetBlogs ==
    \E hdr \in AnonHeaders, q \in BlogQueries :
        LET out == [user \in Identities |-> getBlogs(q)] IN Serve("blogs", "getBlogs", hdr, NoId, q, out)

GetBlog ==
    \E hdr \in AnonHeaders, id \in IdStrings :
        LET out == [user \in Identities |-> getBlog(id)]
        IN  Serve("blogs", "getBlog", hdr, id, NoBody, out) /\ ViewsBound(blogs')

AddBlog ==
    \/ Turned("blogs", "addBlog")
    \/ \E hdr \in BearerHeaders, body \in NewBlogBodies :
        LET out == [user \in Identities |-> addBlog(body)] IN Serve("blogs", "addBlog", hdr, NoId, body, out)

UpdateBlog ==
    \/ Turned("blogs", "updateBlog")
    \/ \E hdr \in BearerHeaders, id \in IdStrings, body \in BlogUpdates : \E cast \in CastObjectId(id) :
        LET out == [user \in Identities |-> updateBlog(id, body, cast)] IN Serve("blogs", "updateBlog", hdr, id, body, out)

DeleteBlog ==
    \/ Turned("blogs", "deleteBlog")
    \/ \E hdr \in BearerHeaders, id \in IdStrings :
        LET out == [user \in Identities |-> deleteBlog(id)] IN Serve("blogs", "deleteBlog", hdr, id, NoBody, out)

GetBlogStats ==
    \/ Turned("blogs", "getBlogStats")
    \/ \E hdr \in BearerHeaders :
        LET out == [user \in Identities |-> getBlogStats] IN Serve("blogs", "getBlogStats", hdr, NoId, NoBody, out)

SaveContact ==
    \E hdr \in AnonHeaders, body \in NewContactBodies :
        LET out == [user \in Identities |-> saveContact(body)] IN Serve("contacts", "saveContact", hdr, NoId, body, out)

GetContacts ==
    \/ Turned("contacts", "getContacts")
    \/ \E hdr \in Headers, q \in ContactQueries :
        LET out == [user \in Identities |-> getContacts(q)] IN Serve("contacts", "getContacts", hdr, NoId, q, out)

GetContact ==
    \/ Turned("contacts", "getContact")
    \/ \E hdr \in Headers, id \in IdStrings :
        LET out == [user \in Identities |-> getContact(id)] IN Serve("contacts", "getContact", hdr, id, NoBody, out)

UpdateContactStatus ==
    \/ Turned("contacts", "updateContactStatus")
    \/ \E hdr \in Headers, id \in IdStrings, body \in ContactUpdates :
        LET out == [user \in Identities |-> updateContactStatus(id, body, user)]
        IN  Serve("contacts", "updateContactStatus", hdr, id, body, out)

DeleteContact ==
    \/ Turned("contacts", "deleteContact")
    \/ \E hdr \in Headers, id \in IdStrings :
        LET out == [user \in Identities |-> deleteContact(id)] IN Serve("contacts", "deleteContact", hdr, id, NoBody, out)

GetContactStats ==
    \/ Turned("contacts", "getContactStats")
    \/ \E hdr \in Headers :
        LET out == [user \in Identities |-> getContactStats] IN Serve("contacts", "getContactStats", hdr, NoId, NoBody, out)

RegisterAdmin ==
    \E hdr \in AnonHeaders, body \in RegisterBodies :
        LET out == [user \in Identities |-> registerAdmin(body)] IN Serve("users", "registerAdmin", hdr, NoId, body, out)

AdminLogin ==
    \E hdr \in AnonHeaders, body \in LoginBodies :
        LET out == [user \in Identities |-> adminLogin(body)] IN Serve("users", "adminLogin", hdr, NoId, body, out)

VerifyToken ==
    \/ Turned("users", "verifyToken")
    \/ \E hdr \in Headers :
        LET out == [user \in Identities |-> verifyToken(user)] IN Serve("users", "verifyToken", hdr, NoId, NoBody, out)

Logout ==
    \/ Turned("users", "logout")
    \/ \E hdr \in Headers :
        LET out == [user \in Identities |-> logout] IN Serve("users", "logout", hdr, NoId, NoBody, out)

Next ==
    \/ Tick
    \/ GetProjects
    \/ GetProject
    \/ AddProject
    \/ UpdateProject
    \/ DeleteProject
    \/ GetBlogs
    \/ GetBlog
    \/ AddBlog
    \/ UpdateBlog
    \/ DeleteBlog
    \/ GetBlogStats
    \/ SaveContact
    \/ GetContacts
    \/ GetContact
    \/ UpdateContactStatus
    \/ DeleteContact
    \/ GetContactStats
    \/ RegisterAdmin
    \/ AdminLogin
    \/ VerifyToken
    \/ Logout

Spec == Init /\ [][Next]_vars

\* the same requests against a store whose calls fail
SpecOutage == InitOutage /\ [][Next]_vars

(* ------------------------------ concurrent requests ------------------- *)

\* Node runs one handler until its next await: a request in flight is at
\* "start" (no store call made yet), "found" (its first call answered, a
\* second is to come), "called" (its last call answered) or "done" (response
\* sent).  A slot of inflight holds the request, the document its first call
\* returned and the response it sends.
NoAnswer == [code |-> 0, msg |-> "", shown |-> <<>>, pg |-> NoPg, data |-> None]
Request(op, id, body) ==
    [op |-> op, id |-> id, body |-> body, pc |-> "start", doc |-> None, ans |-> NoAnswer]

\* the response part of a handler's outcome
Answer(o) == [code |-> o.code, msg |-> o.msg, shown |-> o.shown, pg |-> o.pg, data |-> o.data]

\* the 24-hex string of the ObjectId k
IdOf(k) == [len |-> 24, hex |-> TRUE, key |-> k]

\* res.json(...) of a request in flight
Respond ==
    \E i \in DOMAIN inflight :
        /\ inflight[i].pc = "called"
        /\ inflight' = [inflight EXCEPT ![i].pc = "done"]
        /\ last' = [op |-> inflight[i].op, hdr |-> <<>>, id |-> inflight[i].id,
                    body |-> inflight[i].body, ran |-> TRUE, user |-> NoUser,
                    code |-> inflight[i].ans.code, msg |-> inflight[i].ans.msg,
                    shown |-> inflight[i].ans.shown, pg |-> inflight[i].ans.pg,
                    data |-> inflight[i].ans.data]
        /\ UNCHANGED <<projects, blogs, contacts, users, nextId, now, failing>>

\* every request in flight was answered
AllDone == \A i \in DOMAIN inflight : inflight[i].pc = "done"

(* concurrent reads of a blog post *)

\* getBlog requests in flight at once
MaxReaders == 2

\* a stored post with no views yet, MaxReaders getBlog requests for it and
\* one updateBlog on it
InitViews ==
    /\ now = 0
    /\ \E st \in BlogStatuses :
         blogs = Insert(<<>>, 1, NewBlog("T", "Node.js is a powerful runtime", st))
    /\ projects = <<>>
    /\ contacts = <<>>
    /\ users = <<>>
    /\ nextId = [c \in Collections |-> IF c = "blogs" THEN 2 ELSE 1]
    /\ last = NoLast
    /\ failing = 0
    /\ \E body \in BlogUpdates :
         inflight = [i \in 1..(MaxReaders + 1) |->
                        IF i <= MaxReaders THEN Request("getBlog", IdOf(1), NoBody)
                        ELSE Request("updateBlog", IdOf(1), body)]

\* a getBlog in flight up to its response: its one store call is
\* findByIdAndUpdate with $inc
ReadBlog ==
    \E i \in DOMAIN inflight :
        /\ inflight[i].pc = "start"
        /\ inflight[i].op = "getBlog"
        /\ \E o \in {getBlog(inflight[i].id)} :
            /\ blogs' = o.coll
            /\ inflight' = [inflight EXCEPT ![i].pc = "called", ![i].ans = Answer(o)]
        /\ UNCHANGED <<projects, contacts, users, nextId, now, last, failing>>

\* an updateBlog in flight up to its response: its one store call is
\* findByIdAndUpdate
WriteBlog ==
    \E i \in DOMAIN inflight :
        /\ inflight[i].pc = "start"
        /\ inflight[i].op = "updateBlog"
        /\ \E cast \in CastObjectId(inflight[i].id) :
            \E o \in {updateBlog(inflight[i].id, inflight[i].body, cast)} :
                /\ blogs' = o.coll
                /\ inflight' = [inflight EXCEPT ![i].pc = "called", ![i].ans = Answer(o)]
        /\ UNCHANGED <<projects, contacts, users, nextId, now, last, failing>>

NextViews ==
    \/ ReadBlog
    \/ WriteBlog
    \/ Respond

SpecViews == InitViews /\ [][NextViews]_vars

(* a read of a contact message concurrent with status updates *)

\* updateContactStatus requests in flight at once
MaxWriters == 2

\* a stored new message, one getContact for it and MaxWriters
\* updateContactStatus requests on it
InitRead ==
    /\ now = 0
    /\ contacts = Insert(<<>>, 1, NewContact("John Doe", "john@example.com",
                                             "I am interested in hiring you for a web project."))
    /\ projects = <<>>
    /\ blogs = <<>>
    /\ users = <<>>
    /\ nextId = [c \in Collections |-> IF c = "contacts" THEN 2 ELSE 1]
    /\ last = NoLast
    /\ failing = 0
    /\ \E bodies \in [1..MaxWriters -> ContactUpdates] :
         inflight = [i \in 1..(MaxWriters + 1) |->
                        IF i <= MaxWriters
                        THEN Request("updateContactStatus", IdOf(1), bodies[i])
                        ELSE Request("getContact", IdOf(1), NoBody)]

\* getContact up to its first await: Contact.findById(id); a message that
\* is not new is answered as found, a new one goes on to markAsRead
FindContact ==
    \E i \in DOMAIN inflight :
        /\ inflight[i].pc = "start"
        /\ inflight[i].op = "getContact"
        /\ LET id == inflight[i].id
           IN  inflight' =
                 IF ~MatchObjectId(id) \/ id.key \notin DOMAIN contacts
                       \/ contacts[id.key].status # "new"
                 THEN [inflight EXCEPT ![i].pc = "called", ![i].ans = Answer(getContact(id))]
                 ELSE [inflight EXCEPT ![i].pc = "found", ![i].doc = Some(contacts[id.key])]
        /\ UNCHANGED <<projects, blogs, contacts, users, nextId, now, last, failing>>

\* Model.prototype.save of a document read earlier: the paths modified since
\* the read (status, and the updatedAt stamp) are written to the stored
\* record, whatever it holds by now
SaveModified(stored, doc) == [stored EXCEPT !.status = doc.status, !.updatedAt = doc.updatedAt]

\* getContact from findById's answer to its second await: markAsRead on the
\* document read, then the response with that document
SaveRead ==
    \E i \in DOMAIN inflight :
        /\ inflight[i].pc = "found"
        /\ LET k == inflight[i].id.key
               doc == markAsRead(Get(inflight[i].doc))
           IN  /\ contacts' = [contacts EXCEPT ![k] = SaveModified(@, doc)]
               /\ inflight' = [inflight EXCEPT ![i].pc = "called", ![i].doc = Some(doc),
                                               ![i].ans = Answer(OutData(contacts, 200, "", k, doc))]
        /\ UNCHANGED <<projects, blogs, users, nextId, now, last, failing>>

\* an updateContactStatus in flight up to its response: its one store call
\* is findByIdAndUpdate
WriteContact ==
    \E i \in DOMAIN inflight :
        /\ inflight[i].pc = "start"
        /\ inflight[i].op = "updateContactStatus"
        /\ \E o \in {updateContactStatus(inflight[i].id, inflight[i].body, TokAlice.payload)} :
            /\ contacts' = o.coll
            /\ inflight' = [inflight EXCEPT ![i].pc = "called", ![i].ans = Answer(o)]
        /\ UNCHANGED <<projects, blogs, users, nextId, now, last, failing>>

NextRead ==
    \/ FindContact
    \/ SaveRead
    \/ WriteContact
    \/ Respond

SpecRead == InitRead /\ [][NextRead]_vars

(* concurrent registrations *)

\* register requests in flight at once
MaxRegistrants == 2

\* no account yet and MaxRegistrants register requests arriving together
InitRegister ==
    /\ now = 0
    /\ projects = <<>>
    /\ blogs = <<>>
    /\ contacts = <<>>
    /\ users = <<>>
    /\ nextId = [c \in Collections |-> 1]
    /\ last = NoLast
    /\ failing = 0
    /\ \E bodies \in [1..MaxRegistrants -> RegisterBodies] :
         inflight = [i \in 1..MaxRegistrants |-> Request("registerAdmin", NoId, bodies[i])]

\* registerAdmin up to its first await: the input checks and User.findOne;
\* a request refused (400) or finding the name taken (409) is answered,
\* another goes on to save
FindAdmin ==
    \E i \in DOMAIN inflight :
        /\ inflight[i].pc = "start"
        /\ inflight[i].op = "registerAdmin"
        /\ \E o \in {registerAdmin(inflight[i].body)} :
            inflight' = IF o.code \in {400, 409}
                        THEN [inflight EXCEPT ![i].pc = "called", ![i].ans = Answer(o)]
                        ELSE [inflight EXCEPT ![i].pc = "found"]
        /\ UNCHANGED <<projects, blogs, contacts, users, nextId, now, last, failing>>

\* registerAdmin from findOne's answer to its second await: admin.save().
\* The unique index of UserSchema.username makes the insert of a name stored
\* meanwhile fail with a duplicate-key error, which the catch answers 500.
SaveAdmin ==
    \E i \in DOMAIN inflight :
        /\ inflight[i].pc = "found"
        /\ \E o \in {IF FindUser(ToLower(Get(inflight[i].body.username))) # {}
                      THEN Out(users, 500, ErrorMessage("registerAdmin"))
                      ELSE registerAdmin(inflight[i].body)} :
            /\ users' = o.coll
            /\ Allocate("users", users, o.coll)
            /\ inflight' = [inflight EXCEPT ![i].pc = "called", ![i].ans = Answer(o)]
        /\ UNCHANGED <<projects, blogs, contacts, now, last, failing>>

NextRegister ==
    \/ FindAdmin
    \/ SaveAdmin
    \/ Respond

SpecRegister == InitRegister /\ [][NextRegister]_vars

(* ------------------------------ properties ----------------------------- *)

\* a header one of whose words is a token jwt.verify accepts
Verifies(hdr) == \E i \in DOMAIN hdr : JwtVerify(hdr[i]).ok

\* user is the payload of a token of the header that jwt.verify accepts
Carries(hdr, user) == \E i \in DOMAIN hdr : JwtVerify(hdr[i]).ok /\ hdr[i].payload = user

\* no collection changes in the step
StoreUnchanged == UNCHANGED <<projects, blogs, contacts, users>>

\* C1: on every protected route the handler runs only for a request whose
\* token the gate verified, with the decoded identity attached; a request
\* with no token or a token that fails verification is answered 403 with a
\* message, its handler is not invoked and no collection changes.
GateBeforeHandler ==
    [][last'.op \in ProtectedOps =>
        /\ last'.ran => Carries(last'.hdr, last'.user)
        /\ ~Verifies(last'.hdr) =>
              /\ ~last'.ran
              /\ last'.code = 403
              /\ last'.msg \in {"Access denied - No token provided",
                                "Invalid token - Authentication failed"}
              /\ StoreUnchanged]_vars

\* a forged token was turned away from DELETE /api/blogs/:id while a post is stored
GateBeforeHandlerRefusal ==
    /\ last.op = "deleteBlog"
    /\ last.hdr = <<TokForged>>
    /\ ~last.ran
    /\ last.code = 403
    /\ blogs # <<>>

\* the operations that take an id
IdOps ==
    {"getProject", "updateProject", "deleteProject", "getBlog", "updateBlog", "deleteBlog",
     "getContact", "updateContactStatus", "deleteContact"}

\* C2: every id-taking operation answers an id that is not 24 hexadecimal
\* characters with 400 (invalid id).
MalformedIdIs400 ==
    (last.op \in IdOps /\ last.ran /\ ~MatchObjectId(last.id)) => last.code = 400

\* C3: whenever a post becomes published - created published, or updated
\* from another status - the stored record has publishedAt set.
PublishedAtSetOnPublish ==
    [][\A i \in DOMAIN blogs' :
          (blogs'[i].status = "published"
             /\ (i \in DOMAIN blogs => blogs[i].status # "published"))
          => IsSome(blogs'[i].publishedAt)]_vars

\* C4: once publishedAt of a stored post is set, no request changes it.
PublishedAtImmutable ==
    [][\A i \in DOMAIN blogs \cap DOMAIN blogs' :
          IsSome(blogs[i].publishedAt) => blogs'[i].publishedAt = blogs[i].publishedAt]_vars

\* C5: respondedAt and respondedBy of a contact are set only by an
\* updateStatus that makes it replied, and once respondedAt is set no request
\* changes either.
RespondedSetOnce ==
    [][\A i \in DOMAIN contacts \cap DOMAIN contacts' :
          IF IsSome(contacts[i].respondedAt)
          THEN /\ contacts'[i].respondedAt = contacts[i].respondedAt
               /\ contacts'[i].respondedBy = contacts[i].respondedBy
          ELSE IsSome(contacts'[i].respondedAt) =>
                  /\ last'.op = "updateContactStatus"
                  /\ contacts'[i].status = "replied"]_vars

\* C6: every getBlog with the well-formed id of a stored post leaves the
\* stored views one higher, whatever the status; for a post that is not
\* published the answer is 404.
GetBlogAlwaysCounts ==
    [][(now' = now /\ last'.op = "getBlog" /\ MatchObjectId(last'.id)
          /\ last'.id.key \in DOMAIN blogs) =>
        /\ IsSome(blogs[last'.id.key].views)
        /\ blogs'[last'.id.key].views = Some(Get(blogs[last'.id.key].views) + 1)
        /\ blogs[last'.id.key].status # "published" => last'.code = 404]_vars

\* C7: the views of a stored post never decrease, and increase only in a
\* getBlog of a post whose status is published.
ViewsOnlyByPublishedRead ==
    [][\A i \in DOMAIN blogs \cap DOMAIN blogs' :
          IsSome(blogs[i].views) =>
            /\ IsSome(blogs'[i].views)
            /\ Get(blogs'[i].views) >= Get(blogs[i].views)
            /\ Get(blogs'[i].views) > Get(blogs[i].views) =>
                  (last'.op = "getBlog" /\ blogs[i].status = "published")]_vars

\* C8: an updateBlog leaves views and createdAt of every stored post as they
\* were and the set of stored ids unchanged, whatever the body.
UpdateBlogKeepsViews ==
    [][(now' = now /\ last'.op = "updateBlog") =>
        /\ DOMAIN blogs' = DOMAIN blogs
        /\ \A i \in DOMAIN blogs :
              /\ blogs'[i].views = blogs[i].views
              /\ blogs'[i].createdAt = blogs[i].createdAt]_vars

\* C9: the public blog endpoints return published posts only: every post in
\* a list answer and the post of a get-by-id answer is published.
PublicSeesPublishedOnly ==
    (last.op \in {"getBlogs", "getBlog"} /\ last.code = 200) =>
        \A n \in DOMAIN last.shown :
            last.shown[n] \in DOMAIN blogs => blogs[last.shown[n]].status = "published"

\* the pages 1..totalPages of a list hold total records in all, totalPages
\* is ceil(total / limit), and the two flags compare currentPage with
\* totalPages and with 1
RECURSIVE PageSum(_, _, _)
PageSum(sorted, limitNum, pages) ==
    IF pages <= 0 THEN 0
    ELSE Len(PageOf(sorted, limitNum, pages).shown) + PageSum(sorted, limitNum, pages - 1)

PagesAddUp(sorted, limitNum, pageNum) ==
    LET page == PageOf(sorted, limitNum, pageNum)
    IN  page.code = 200 =>
          /\ IsSome(page.pg.totalPages)
          /\ limitNum > 0
          /\ Get(page.pg.totalPages) * limitNum >= page.pg.total
          /\ (Get(page.pg.totalPages) - 1) * limitNum < page.pg.total
          /\ page.pg.hasNextPage <=> (pageNum < Get(page.pg.totalPages))
          /\ page.pg.hasPrevPage <=> (pageNum > 1)
          /\ PageSum(sorted, limitNum, Get(page.pg.totalPages)) = page.pg.total

\* C10: for the project, blog and contact lists, for every filter, limit and
\* page that is answered 200: the pages 1..totalPages hold total records in
\* all, totalPages = ceil(total / limit), hasNextPage iff currentPage <
\* totalPages, hasPrevPage iff currentPage > 1.
PaginationAddsUp ==
    /\ \A q \in ProjectQueries :
          PagesAddUp(ProjectMatches(q), LimitNum(q, ProjectLimit), PageNum(q))
    /\ \A q \in BlogQueries : PagesAddUp(BlogMatches(q), LimitNum(q, BlogLimit), PageNum(q))
    /\ \A q \in ContactQueries :
          PagesAddUp(ContactMatches(q), LimitNum(q, ContactLimit), PageNum(q))

\* the get-by-id of the collection a create writes to
GetOf(op) ==
    CASE op = "addProject" -> "getProject"
      [] op = "addBlog" -> "getBlog"
      [] op = "saveContact" -> "getContact"
      [] OTHER -> "none"

\* the step is a get-by-id, run by its handler, of the id the create
\* answered last returned
GetsWhatWasCreated ==
    /\ last.op \in {"addProject", "addBlog", "saveContact"}
    /\ last.code = 201
    /\ last'.op = GetOf(last.op)
    /\ last'.ran
    /\ MatchObjectId(last'.id)
    /\ <<last'.id.key>> = last.shown

\* the record a get returned has the values the create returned: the whole
\* record, or for a contact the values of the summary
SameAsCreated(created, got) ==
    IF last.op = "saveContact"
    THEN /\ got.name = created.name
         /\ got.email = created.email
         /\ got.createdAt = created.submittedAt
    ELSE got = created

\* C11 as stated: a get-by-id that follows a create at once resolves the id
\* and returns the field values the create returned, for projects, blog posts
\* and contact messages alike.
RoundTrip ==
    [][GetsWhatWasCreated =>
          /\ last'.code = 200
          /\ IsSome(last'.data)
          /\ SameAsCreated(Get(last.data), Get(last'.data))]_vars

\* C11 amended: the round trip holds for projects and contact messages; a
\* blog post created published is returned with equal values except views,
\* which is one higher, and updatedAt, which is the time of the read; a blog
\* post created draft or archived is answered 404.
RoundTripButBlogViews ==
    [][GetsWhatWasCreated =>
          IF last.op # "addBlog"
          THEN /\ last'.code = 200
               /\ IsSome(last'.data)
               /\ SameAsCreated(Get(last.data), Get(last'.data))
          ELSE IF Get(last.data).status = "published"
          THEN /\ last'.code = 200
               /\ last'.data =
                    Some([Get(last.data) EXCEPT !.views = Some(Get(Get(last.data).views) + 1),
                                                !.updatedAt = now])
          ELSE /\ last'.code = 404
               /\ last'.data = None]_vars

\* a post created published was read after the clock moved and came back
\* with one view and a later updatedAt
RoundTripBlogRead ==
    /\ last.op = "getBlog"
    /\ last.code = 200
    /\ IsSome(last.data)
    /\ Get(last.data).views = Some(1)
    /\ Get(last.data).status = "published"
    /\ Get(last.data).createdAt < Get(last.data).updatedAt

\* a step that is a contact submission carrying name, email and message and
\* an email the pattern accepts
SubmitsContact ==
    /\ last'.op = "saveContact"
    /\ now' = now
    /\ Truthy(last'.body.name) /\ Truthy(last'.body.email) /\ Truthy(last'.body.message)
    /\ EmailOk(Get(last'.body.email))

\* the submission of the step stored exactly one record, new, normal and from
\* the website, and was answered 201 with the summary of that record
StoredOneContact ==
    /\ last'.code = 201
    /\ \E k \in DOMAIN contacts' \ DOMAIN contacts :
          /\ DOMAIN contacts' = DOMAIN contacts \cup {k}
          /\ \A i \in DOMAIN contacts : contacts'[i] = contacts[i]
          /\ contacts'[k].status = "new"
          /\ contacts'[k].priority = "normal"
          /\ contacts'[k].source = "website"
          /\ contacts'[k].name = Trim(Get(last'.body.name))
          /\ contacts'[k].email = Trim(ToLower(Get(last'.body.email)))
          /\ IsSome(last'.data)
          /\ DOMAIN Get(last'.data) = {"id", "name", "email", "submittedAt"}
          /\ Get(last'.data).id = k
          /\ Get(last'.data).name = contacts'[k].name
          /\ Get(last'.data).email = contacts'[k].email

\* a stored contact changes only by a getContact or an updateContactStatus
\* of its id and leaves only by a deleteContact of its id, and an admin list
\* with status=new and default paging shows every stored contact whose
\* status is "new"
NewContactsListed ==
    /\ \A i \in DOMAIN contacts :
          \/ i \in DOMAIN contacts' /\ contacts'[i] = contacts[i]
          \/ /\ last'.op \in {"getContact", "updateContactStatus", "deleteContact"}
             /\ last'.id.key = i
    /\ (/\ last'.op = "getContacts"
        /\ now' = now
        /\ last'.ran
        /\ last'.body.status = Some("new")
        /\ last'.body.priority = None
        /\ last'.body.limit = None /\ last'.body.page = None)
       => /\ last'.code = 200
          /\ \A i \in DOMAIN contacts :
                contacts[i].status = "new" => \E n \in DOMAIN last'.shown : last'.shown[n] = i

\* C12 as stated: a submission with name, email and message present and a
\* pattern-valid email stores exactly one record (new, normal, website) and
\* is answered 201 with the summary of id, name and email; an admin list with
\* status=new shows it while no get, update or delete has touched it.
ContactSubmission ==
    [][(SubmitsContact => StoredOneContact) /\ NewContactsListed]_vars

\* C12 amended: as C12, for the submissions whose trimmed name and trimmed
\* message the validators of the schema accept.
ContactSubmissionValidated ==
    [][/\ (SubmitsContact
           /\ ContactErrors(Trim(Get(last'.body.name)), Trim(Get(last'.body.message))) = {})
          => StoredOneContact
       /\ NewContactsListed]_vars

\* the admin listed status=new and was shown the message submitted before,
\* which nothing had touched
NewContactListed ==
    /\ last.op = "getContacts"
    /\ last.ran
    /\ last.body.status = Some("new")
    /\ last.shown = <<1>>
    /\ 1 \in DOMAIN contacts
    /\ contacts[1].status = "new"
    /\ contacts[1].source = "website"

\* the accounts whose stored username is the lower-cased identifier
Matching(identifier) == {i \in DOMAIN users : users[i].username = ToLower(identifier)}

\* a step that is a login carrying an identifier and a password
LogsIn ==
    /\ last'.op = "adminLogin"
    /\ now' = now
    /\ Truthy(last'.body.email)
    /\ Truthy(last'.body.password)

LogsInAfterRegister ==
    /\ last.op = "registerAdmin"
    /\ last.code = 201
    /\ last'.op = "adminLogin"
    /\ now' = now
    /\ Truthy(last'.body.email)
    /\ last'.body.password = last.body.password

\* C14: after a successful register, a login with the registered password
\* succeeds when its identifier is the account's email and when it is the
\* account's username, in any letter case.
LoginByEmailOrUsername ==
    [][(/\ LogsInAfterRegister
        /\ ToLower(Get(last'.body.email)) \in
              {ToLower(Get(last.body.email)), ToLower(Get(last.body.username))})
       => /\ last'.code = 200
          /\ IsSome(last'.data)
          /\ <<Get(last'.data).user.id>> = last.shown]_vars

\* a step that is a register carrying username, email and password
Registers ==
    /\ last'.op = "registerAdmin"
    /\ now' = now
    /\ Truthy(last'.body.username) /\ Truthy(last'.body.email) /\ Truthy(last'.body.password)

\* C15: a register that follows a successful register and carries the same
\* username or the same email (and a password long enough) is answered 409
\* and stores nothing, a register
\* whose password is shorter than 6 characters is answered 400 and stores
\* nothing, and no two stored accounts share a username.
RegisterRefusesDuplicates ==
    [][/\ (/\ Registers
           /\ last.op = "registerAdmin"
           /\ last.code = 201
           /\ PasswordLength(Get(last'.body.password)) >= 6
           /\ \/ ToLower(Get(last'.body.username)) = ToLower(Get(last.body.username))
              \/ ToLower(Get(last'.body.email)) = ToLower(Get(last.body.email)))
          => last'.code = 409 /\ users' = users
       /\ (Registers /\ PasswordLength(Get(last'.body.password)) < 6)
          => last'.code = 400 /\ users' = users
       /\ \A i, j \in DOMAIN users' : users'[i].username = users'[j].username => i = j]_vars

\* C16: the password stored for an account is the hash of the password that
\* was supplied, never the supplied password itself; no step changes the
\* stored hash of an existing account, and a save that does not modify the
\* password leaves it as it is (it is not hashed a second time).
PasswordAtRestHashed ==
    [][/\ \A i \in DOMAIN users' :
             /\ users'[i].password \notin Passwords
             /\ \E pw \in Passwords : users'[i].password = Hash(pw)
             /\ UserPreSave(users'[i], FALSE) = users'[i]
       /\ \A i \in DOMAIN users :
             i \in DOMAIN users' /\ users'[i].password = users[i].password
       /\ \A i \in DOMAIN users' \ DOMAIN users :
             /\ last'.op = "registerAdmin"
             /\ users'[i].password # Get(last'.body.password)
             /\ users'[i].password = Hash(Get(last'.body.password))]_vars

\* an account was registered and its password is at rest as a hash
PasswordStoredHashed ==
    /\ last.op = "registerAdmin"
    /\ last.code = 201
    /\ last.body.password = Some("secret-1")
    /\ \E i \in DOMAIN users : <<i>> = last.shown /\ users[i].password = Hash("secret-1")

\* the other way of sending the token of a header: "Bearer t" for the raw
\* token t, and t for "Bearer t"
OtherForm(hdr) == IF Len(hdr) = 1 THEN <<Bearer, hdr[1]>> ELSE <<hdr[2]>>

\* C17: for a request to a protected route whose Authorization header is a
\* token t, raw or behind "Bearer ", the gate decided and attached what it
\* decides and attaches for the other form of the same token.
RawAndBearerAlike ==
    [][(/\ last'.op \in ProtectedOps
        /\ now' = now
        /\ \/ Len(last'.hdr) = 1 /\ last'.hdr[1].kind = "jwt"
           \/ Len(last'.hdr) = 2 /\ last'.hdr[1] = Bearer /\ last'.hdr[2].kind = "jwt")
       => /\ last'.ran = authMiddleware(OtherForm(last'.hdr)).next
          /\ last'.user = authMiddleware(OtherForm(last'.hdr)).user
          /\ ~last'.ran => last'.code = authMiddleware(OtherForm(last'.hdr)).code]_vars

\* a protected handler ran for a request that carried its token raw
RawTokenAccepted ==
    /\ last.op \in ProtectedOps
    /\ last.hdr = <<TokLegacy>>
    /\ last.ran
    /\ last.user = TokLegacy.payload

\* a step that is an admin getContact of a stored message
ReadsContact ==
    /\ last'.op = "getContact"
    /\ now' = now
    /\ last'.ran
    /\ MatchObjectId(last'.id)
    /\ last'.id.key \in DOMAIN contacts

\* C18: a getContact of a message whose status is "new" stores status "read"
\* and returns the record with status "read"; a getContact of a message with
\* any other status changes no field of it and returns it as stored.
FirstReadMarksRead ==
    [][ReadsContact =>
          LET k == last'.id.key
          IN  /\ last'.code = 200
              /\ k \in DOMAIN contacts'
              /\ last'.data = Some(contacts'[k])
              /\ IF contacts[k].status = "new"
                 THEN /\ contacts'[k].status = "read"
                      /\ Get(last'.data).status = "read"
                 ELSE contacts'[k] = contacts[k]
              /\ \A i \in DOMAIN contacts \ {k} : i \in DOMAIN contacts' /\ contacts'[i] = contacts[i]]_vars

\* a message was read for the first time and came back with status "read"
ContactMarkedRead ==
    /\ last.op = "getContact"
    /\ last.code = 200
    /\ IsSome(last.data)
    /\ Get(last.data).status = "read"
    /\ Get(last.data).respondedAt = None
    /\ Get(last.data).createdAt < Get(last.data).updatedAt

\* a step that is an admin updateContactStatus of a stored message
UpdatesContact ==
    /\ last'.op = "updateContactStatus"
    /\ now' = now
    /\ last'.ran
    /\ MatchObjectId(last'.id)
    /\ last'.id.key \in DOMAIN contacts

\* C19: an updateContactStatus leaves status, priority and notes as stored
\* when the request omits them and stores the ones it supplies, never changes
\* name, email, message, source, ipAddress or userAgent, changes respondedAt
\* and respondedBy only when the request sets status "replied", and changes
\* no other message.
UpdateAppliesSuppliedOnly ==
    [][UpdatesContact =>
          LET k == last'.id.key
              body == last'.body
              old == contacts[k]
          IN  /\ k \in DOMAIN contacts'
              /\ \A i \in DOMAIN contacts \ {k} : i \in DOMAIN contacts' /\ contacts'[i] = contacts[i]
              /\ \A f \in {"name", "email", "message", "source", "ipAddress", "userAgent"} :
                    contacts'[k][f] = old[f]
              /\ ~Truthy(body.status) => contacts'[k].status = old.status
              /\ ~Truthy(body.priority) => contacts'[k].priority = old.priority
              /\ body.notes = None => contacts'[k].notes = old.notes
              /\ body.status # Some("replied") =>
                    /\ contacts'[k].respondedAt = old.respondedAt
                    /\ contacts'[k].respondedBy = old.respondedBy
              /\ last'.code = 200 =>
                    /\ Truthy(body.status) => contacts'[k].status = Get(body.status)
                    /\ Truthy(body.priority) => contacts'[k].priority = Get(body.priority)
                    /\ IsSome(body.notes) => contacts'[k].notes = body.notes
              /\ last'.code # 200 => contacts'[k] = old]_vars

\* an update that supplied priority and notes only was stored: the status
\* and the reply stamps are the ones the message had
ContactPriorityUpdated ==
    /\ last.op = "updateContactStatus"
    /\ last.code = 200
    /\ last.body.priority = Some("high")
    /\ IsSome(last.data)
    /\ Get(last.data).priority = "high"
    /\ Get(last.data).notes = Some("called back")
    /\ Get(last.data).status = "new"
    /\ Get(last.data).respondedAt = None

\* C20: every stored project holds a non-empty title, a category of the
\* enumeration and a non-empty image, and an addProject or updateProject
\* answered 400 leaves the collection as it was.
ProjectFieldsPresent ==
    [][/\ \A i \in DOMAIN projects' :
             /\ projects'[i].title \notin {"", Missing}
             /\ projects'[i].category \in Categories
             /\ projects'[i].image \notin {"", Missing}
       /\ (last'.op \in {"addProject", "updateProject"} /\ now' = now /\ last'.code = 400)
             => projects' = projects]_vars

\* a step that is an updateProject the gate let through
UpdatesProject ==
    /\ last'.op = "updateProject"
    /\ now' = now
    /\ last'.ran

StatusCodes == {200, 201, 400, 401, 403, 404, 409, 500}

\* a request was answered in this step
Answers == last' # last /\ now' = now

\* C22: every request is answered with exactly one response whose status is
\* one of 200, 201, 400, 401, 403, 404, 409 and 500, whatever the inputs and
\* whichever store call fails: a failing call is caught by the handler and
\* answered 500 (with the first call failing every handler but logout
\* answers 400 or 500), no request is left without a response (code 0).
EveryFailureCaught ==
    [][Answers =>
          /\ last'.code \in StatusCodes
          /\ (failing = 1 /\ last'.ran /\ last'.op # "logout") => last'.code \in {400, 500}]_vars

\* a registration whose save fails after its existence check passed is
\* answered 500 and stores no account
SaveFailureAnswered500 ==
    /\ failing = 2
    /\ last.op = "registerAdmin"
    /\ last.code = 500
    /\ last.msg = "Error creating admin account"
    /\ users = <<>>

(* ------------------------------ C23 ------------------------------------ *)

\* C23: no failure is partial: a request answered with an error (any 4xx or
\* 5xx) has changed no collection.
FailureLeavesStore ==
    [][(Answers /\ last'.code >= 400) => StoreUnchanged]_vars

(* ------------------------------ C24 ------------------------------------ *)

DeleteOps == {"deleteProject", "deleteBlog", "deleteContact"}
GetOps == {"getProject", "getBlog", "getContact"}

\* the collection an operation on one record acts on
CollectionOf(op) ==
    CASE op \in {"getProject", "deleteProject"} -> "projects"
      [] op \in {"getBlog", "deleteBlog"} -> "blogs"
      [] OTHER -> "contacts"

\* collection c after the step
CollAfter(c) ==
    CASE c = "projects" -> projects'
      [] c = "blogs" -> blogs'
      [] c = "contacts" -> contacts'
      [] c = "users" -> users'

\* the step is the handler of op answering a request with a well-formed id
OnRecord(ops) ==
    /\ last'.op \in ops
    /\ now' = now
    /\ last'.ran
    /\ MatchObjectId(last'.id)

\* C24: a delete with a well-formed id that no record has answers 404 and
\* changes nothing; otherwise it removes exactly that record, leaves every
\* other record and collection as it was and answers 200 with the deleted
\* id; a get or delete of an id that is not stored answers 404, and an id
\* once removed is never stored again.
DeleteRemovesExactlyOne ==
    [][/\ OnRecord(DeleteOps) =>
            LET c == CollectionOf(last'.op)
                k == last'.id.key
            IN  IF k \notin DOMAIN Coll(c)
                THEN last'.code = 404 /\ StoreUnchanged
                ELSE /\ last'.code = 200
                     /\ last'.shown = <<k>>
                     /\ CollAfter(c) = Remove(Coll(c), k)
                     /\ \A d \in Collections \ {c} : CollAfter(d) = Coll(d)
       /\ (OnRecord(GetOps \cup DeleteOps)
             /\ last'.id.key \notin DOMAIN Coll(CollectionOf(last'.op)))
            => last'.code = 404
       /\ \A c \in Collections : \A i \in 1..(nextId[c] - 1) :
            i \notin DOMAIN Coll(c) => i \notin DOMAIN CollAfter(c)]_vars

\* project 1 was deleted, project 2 is still stored, and a later get of
\* project 1 is answered 404
DeletedProjectGone ==
    /\ last.op = "getProject"
    /\ last.code = 404
    /\ last.id.key = 1
    /\ MatchObjectId(last.id)
    /\ nextId.projects = 3
    /\ DOMAIN projects = {2}

(* ------------------------------ C25 ------------------------------------ *)

\* the number of stored contacts with status st
WithStatus(st) == Cardinality({i \in DOMAIN contacts : contacts[i].status = st})

\* C25: every stored contact has a status among new, read, replied and
\* archived and a priority among low, normal, high and urgent, and the
\* contact statistics report, for each status, the number of stored records
\* with it and a total that is their sum (all zero for an empty collection).
ContactEnumsAndStats ==
    /\ [](\A i \in DOMAIN contacts :
            contacts[i].status \in ContactStatuses /\ contacts[i].priority \in Priorities)
    /\ [][(last'.op = "getContactStats" /\ last'.ran /\ now' = now) =>
            /\ last'.code = 200
            /\ IsSome(last'.data)
            /\ LET d == Get(last'.data)
               IN  /\ d.newContacts = WithStatus("new")
                   /\ d.readContacts = WithStatus("read")
                   /\ d.repliedContacts = WithStatus("replied")
                   /\ d.archivedContacts = WithStatus("archived")
                   /\ d.totalContacts = Cardinality(DOMAIN contacts)
                   /\ d.totalContacts = d.newContacts + d.readContacts
                                            + d.repliedContacts + d.archivedContacts]_vars

\* the statistics of a collection whose one message was archived
ArchivedContactCounted ==
    /\ last.op = "getContactStats"
    /\ last.code = 200
    /\ Get(last.data).totalContacts = 1
    /\ Get(last.data).archivedContacts = 1
    /\ Get(last.data).newContacts = 0
    /\ \E i \in DOMAIN contacts : contacts[i].status = "archived"

(* ------------------------------ C26 ------------------------------------ *)

\* C26: the stored read-time of every blog post is the word count of its
\* current content divided by 200, rounded up, after any sequence of creates
\* and updates (updates that replace the content included).
ReadTimeFollowsContent ==
    \A i \in DOMAIN blogs : blogs[i].readTime = ReadTime(blogs[i].content)

(* ------------------------------ C27 ------------------------------------ *)

\* the slots of the getBlog requests
Readers == {i \in DOMAIN inflight : inflight[i].op = "getBlog"}

\* C27: when the concurrent getBlog requests for a post (and an updateBlog on
\* it) have all been answered, the stored view counter is higher than at the
\* start (0) by the number of getBlog requests, and the getBlog responses that
\* show the post carry pairwise distinct counters.
EveryReadCounted ==
    (AllDone /\ Readers # {}) =>
        /\ blogs[1].views = Some(Cardinality(Readers))
        /\ \A i, j \in Readers :
            (i # j /\ inflight[i].ans.code = 200 /\ inflight[j].ans.code = 200)
                => Get(inflight[i].ans.data).views # Get(inflight[j].ans.data).views

(* ------------------------------ C28 ------------------------------------ *)

\* the step is the write of a getContact (the save of markAsRead)
ReadWrites ==
    \E i \in DOMAIN inflight :
        inflight[i].op = "getContact" /\ inflight[i].pc = "found" /\ inflight'[i].pc = "called"

\* the updateContactStatus requests in slots S were answered 200 and wrote a status
WroteStatus(S) ==
    {i \in S : /\ inflight[i].op = "updateContactStatus"
               /\ inflight[i].pc = "done"
               /\ inflight[i].ans.code = 200
               /\ Truthy(inflight[i].body.status)}

\* C28: getContact only moves a status from new to read: its write never
\* overwrites a stored status of replied or archived, so once every request
\* was answered a message whose only status update set it to replied is not
\* left with status read.
ReadNeverOverwritesReply ==
    /\ [][ReadWrites => contacts[1].status \notin {"replied", "archived"}]_vars
    /\ []((AllDone /\ inflight # <<>>
             /\ \E i \in DOMAIN inflight :
                  /\ WroteStatus(DOMAIN inflight) = {i}
                  /\ inflight[i].body.status = Some("replied"))
            => contacts[1].status # "read")

(* ------------------------------ C29 ------------------------------------ *)

\* the body of slot i passes the input checks of registerAdmin
Registrable(i) ==
    /\ inflight[i].op = "registerAdmin"
    /\ Truthy(inflight[i].body.username)
    /\ Truthy(inflight[i].body.email)
    /\ Truthy(inflight[i].body.password)
    /\ PasswordLength(Get(inflight[i].body.password)) >= 6

\* C29: when two register requests with the same username were in flight
\* together and both are answered, exactly one account with that username
\* exists, one request was answered 201 and the other 409.
ConcurrentRegisterConflict ==
    AllDone =>
        \A i, j \in DOMAIN inflight :
            (/\ i # j
             /\ Registrable(i)
             /\ Registrable(j)
             /\ ToLower(Get(inflight[i].body.username)) = ToLower(Get(inflight[j].body.username)))
            => /\ Cardinality(FindUser(ToLower(Get(inflight[i].body.username)))) = 1
               /\ {inflight[i].ans.code, inflight[j].ans.code} = {201, 409}

(* ------------------------------ C30 ------------------------------------ *)

\* the header carries a token that is signed with the secret and not expired
TokenGood(hdr) == hdr # <<>> /\ JwtVerify(SplitToken(hdr)).ok

\* C30: the gate is stateless: on every protected route a request passes
\* exactly when its token is signed with the secret and not expired,
\* whatever the store holds and whatever was served before; a request that
\* follows a logout made with the same token passes, and so does one whose
\* token names an account the store does not hold, for which the verify
\* endpoint (and it alone among the account routes) answers 404.
GateStateless ==
    [][(last' # last /\ now' = now /\ last'.op \in ProtectedOps) =>
          /\ last'.ran = TokenGood(last'.hdr)
          /\ (last.op = "logout" /\ last.ran /\ last'.hdr = last.hdr) => last'.ran
          /\ (last'.ran /\ last'.user.id \notin DOMAIN users) =>
                /\ last'.op = "verifyToken" => last'.code = 404
                /\ last'.op = "logout" => last'.code = 200]_vars

\* a token of an account the store does not hold passed the gate of the
\* verify endpoint, which answered 404
TokenOutlivesAccount ==
    /\ last.op = "verifyToken"
    /\ last.ran
    /\ last.hdr = <<Bearer, TokAlice>>
    /\ last.code = 404
    /\ users = <<>>

====
